---- MODULE Spec2Model ----
(***************************************************************************)
(* Model of the ironcore-metal machine-controller provider:                *)
(*   - pkg/client/provider.go: the Provider that owns the control-plane    *)
(*     client handle, its mutex, and the background kubeconfig watch;      *)
(*   - pkg/metal/create_machine.go: metalDriver.CreateMachine and the      *)
(*     steps it sequences (applyIPAddresses, applyCapiIPAddress,           *)
(*     applyIgnition, applyServerClaim).                                   *)
(* The control plane (claims, addresses, secrets, server claims), the      *)
(* external IPAM allocator and the kubeconfig file are the environment.    *)
(***************************************************************************)
EXTENDS Integers, Sequences, FiniteSets, TLC

(***************************************************************************)
(* Program constants                                                       *)
(***************************************************************************)
\* time.Millisecond*50: the poll interval of wait.PollUntilContextTimeout
PollInterval == 50
\* time.Millisecond*340: the poll timeout of wait.PollUntilContextTimeout
PollTimeout == 340
\* utilvalidation.DNS1123SubdomainMaxLength
DNS1123SubdomainMaxLength == 253

\* apiv1alpha1.ProviderName, the driver's identity
ProviderName == "ironcore-metal"
\* capiv1beta1.GroupVersion.Group
CapiGroup == "ipam.cluster.x-k8s.io"

(***************************************************************************)
(* Bounds of the model                                                     *)
(***************************************************************************)
\* highest version the kubeconfig file is rotated to
MaxVer == 2
\* most file-system events waiting in the watcher's channel
MaxEvents == 1
\* most control-plane operations that fail in transport in one run
MaxFaults == 1

Nil == "nil"
Free == "free"

\* the goroutines that run Provider.setMetalClient
Procs == {"init", "watch"}
\* the concurrent CreateMachine calls (goroutines of the gRPC server)
Calls == {"c1", "c2"}

VARIABLES
    file,          \* the kubeconfig file at kubeconfigPath: [kind, ver]
    dirOK,         \* path.Dir(kubeconfigPath) exists and can be watched
    events,        \* watcher.Events: names of the changed files, oldest first
    ppc,           \* position of NewProviderAndNamespace ("init") and of the watch goroutine ("watch")
    pcfg,          \* clientConfig local of setMetalClient, per goroutine
    ierr,          \* the error NewProviderAndNamespace returned ("" while none)
    Client,        \* Provider.Client, an interface value of two words <<type, data>>
    mu,            \* holder of Provider.mu, or Free
    ctxDone,       \* the context given to NewProviderAndNamespace is cancelled
    claims,        \* IPAddressClaim objects of the control plane, by name
    addresses,     \* IPAddress objects of the control plane, by name
    serverClaims,  \* ServerClaim objects of the control plane, by name
    secrets,       \* ignition Secret objects of the control plane, by name
    faults,        \* control-plane operations that have failed in transport
    req,           \* the CreateMachineRequest of each call
    call           \* locals and position of each CreateMachine call

provVars == <<file, dirOK, events, ppc, pcfg, ierr, Client, ctxDone>>
cpVars == <<claims, addresses, serverClaims, secrets>>
vars == <<file, dirOK, events, ppc, pcfg, ierr, Client, mu, ctxDone,
          claims, addresses, serverClaims, secrets, faults, req, call>>

(***************************************************************************)
(* The kubeconfig file                                                     *)
(***************************************************************************)
\* what the file holds: nothing, bytes clientcmd.Load rejects, a config
\* without a usable rest config, one without a namespace, a complete one
FileKinds == {"absent", "malformed", "norest", "nons", "valid"}

\* no clientConfig loaded
NoCfg == [kind |-> "none", ver |-> 0]

NilHandle == <<0, 0>>
\* the interface value of a client built from version v of the kubeconfig
Handle(v) == <<v, v>>
\* both words of the interface value belong to the same client
Whole(h) == h[1] = h[2]

\* Provider.getClientConfig: os.ReadFile, clientcmd.Load
getClientConfig ==
    IF file.kind = "absent"
    THEN [err |-> "failed to read metal kubeconfig", cfg |-> NoCfg]
    ELSE IF file.kind = "malformed"
    THEN [err |-> "unable to read metal cluster kubeconfig", cfg |-> NoCfg]
    ELSE [err |-> "", cfg |-> file]

\* mutant of restConfigErr: every loaded configuration yields a rest config
restConfigErr_Never(cfg) == ""

\* clientConfig.ClientConfig() at the head of setMetalClient
restConfigErr(cfg) ==
    IF cfg.kind = "norest" THEN "unable to get metal cluster rest config" ELSE ""

\* getNamespace
getNamespace(cfg) ==
    IF cfg.kind = "nons"
    THEN "failed to get namespace from metal cluster kubeconfig"
    ELSE ""

\* klog.Fatalf in the watch goroutine ends the process
Alive == ppc["watch"] # "fatal"
\* the directory watch is registered and its goroutine is running
Watching == ppc["watch"] \notin {"off", "exited", "fatal"}

(***************************************************************************)
(* Provider: NewProviderAndNamespace, setMetalClient, the watch goroutine  *)
(***************************************************************************)
\* mutant of Lock: the mutex is taken without waiting for it
Lock_NoWait(who) == mu' = who

\* Provider.Lock: sync.Mutex.Lock returns once the mutex is free
Lock(who) ==
    /\ mu = Free
    /\ mu' = who

\* Provider.Unlock
Unlock == mu' = Free

\* how a goroutine leaves setMetalClient with error e ("" for nil), its
\* clientConfig going out of use:
\* NewProviderAndNamespace returns the error, or goes on to getNamespace;
\* the watch goroutine logs and goes back to its select
setReturn(p, e) ==
    /\ pcfg' = [pcfg EXCEPT ![p] = NoCfg]
    /\ IF p = "init"
       THEN IF e # ""
            THEN /\ ppc' = [ppc EXCEPT !["init"] = "failed"]
                 /\ ierr' = e
            ELSE IF getNamespace(pcfg["init"]) # ""
            THEN /\ ppc' = [ppc EXCEPT !["init"] = "failed"]
                 /\ ierr' = getNamespace(pcfg["init"])
            ELSE /\ ppc' = [ppc EXCEPT !["init"] = "ok"]
                 /\ ierr' = ""
       ELSE /\ ppc' = [ppc EXCEPT !["watch"] = "select"]
            /\ ierr' = ierr

\* NewProviderAndNamespace up to the return of reloadMetalClientOnConfigChange:
\* fsnotify.NewWatcher, watcher.Add(dir), go func(){...}
InitWatch ==
    /\ ppc["init"] = "start"
    /\ \E newWatcherOK \in BOOLEAN :
         IF ~newWatcherOK
         THEN /\ ppc' = [ppc EXCEPT !["init"] = "failed"]
              /\ ierr' = "unable to create kubeconfig watcher"
         ELSE IF ~dirOK
         THEN /\ ppc' = [ppc EXCEPT !["init"] = "failed"]
              /\ ierr' = "unable to add kubeconfig"
         ELSE /\ ppc' = [ppc EXCEPT !["init"] = "getcfg", !["watch"] = "select"]
              /\ ierr' = ierr
    /\ UNCHANGED <<file, dirOK, events, pcfg, Client, mu, ctxDone, cpVars, faults, req, call>>

\* NewProviderAndNamespace: cp.getClientConfig() and the head of
\* setMetalClient (clientConfig.ClientConfig())
InitGetConfig ==
    /\ ppc["init"] = "getcfg"
    /\ Alive
    /\ LET r == getClientConfig IN
         IF r.err # ""
         THEN /\ ppc' = [ppc EXCEPT !["init"] = "failed"]
              /\ ierr' = r.err
              /\ pcfg' = pcfg
         ELSE IF restConfigErr(r.cfg) # ""
         THEN /\ ppc' = [ppc EXCEPT !["init"] = "failed"]
              /\ ierr' = restConfigErr(r.cfg)
              /\ pcfg' = pcfg
         ELSE /\ ppc' = [ppc EXCEPT !["init"] = "lock"]
              /\ ierr' = ierr
              /\ pcfg' = [pcfg EXCEPT !["init"] = r.cfg]
    /\ UNCHANGED <<file, dirOK, events, Client, mu, ctxDone, cpVars, faults, req, call>>

\* mutant of SetLock: setMetalClient goes on without taking the mutex
SetLock_NoLock(p) ==
    /\ ppc[p] = "lock"
    /\ Alive
    /\ ppc' = [ppc EXCEPT ![p] = "new"]
    /\ UNCHANGED <<file, dirOK, events, pcfg, ierr, Client, mu, ctxDone, cpVars, faults, req, call>>

\* setMetalClient: p.mu.Lock()
SetLock(p) ==
    /\ ppc[p] = "lock"
    /\ Alive
    /\ Lock(p)
    /\ ppc' = [ppc EXCEPT ![p] = "new"]
    /\ UNCHANGED <<file, dirOK, events, pcfg, ierr, Client, ctxDone, cpVars, faults, req, call>>

\* mutant of SetNew: a failed client.New clears p.Client
SetNew_ClearsOnFailure(p) ==
    /\ ppc[p] = "new"
    /\ Alive
    /\ \E newOK \in BOOLEAN :
         IF newOK
         THEN /\ Client' = <<pcfg[p].ver, Client[2]>>
              /\ ppc' = [ppc EXCEPT ![p] = "assign"]
              /\ UNCHANGED <<mu, ierr, pcfg>>
         ELSE /\ Client' = NilHandle
              /\ Unlock
              /\ setReturn(p, "failed to create client")
    /\ UNCHANGED <<file, dirOK, events, ctxDone, cpVars, faults, req, call>>

\* setMetalClient: client.New; on success the first word of p.Client is
\* stored, on failure the deferred Unlock runs and the error is returned
SetNew(p) ==
    /\ ppc[p] = "new"
    /\ Alive
    /\ \E newOK \in BOOLEAN :
         IF newOK
         THEN /\ Client' = <<pcfg[p].ver, Client[2]>>
              /\ ppc' = [ppc EXCEPT ![p] = "assign"]
              /\ UNCHANGED <<mu, ierr, pcfg>>
         ELSE /\ Client' = Client
              /\ Unlock
              /\ setReturn(p, "failed to create client")
    /\ UNCHANGED <<file, dirOK, events, ctxDone, cpVars, faults, req, call>>

\* setMetalClient: the second word of p.Client is stored, the deferred
\* Unlock runs, nil is returned
SetAssign(p) ==
    /\ ppc[p] = "assign"
    /\ Alive
    /\ Client' = Handle(pcfg[p].ver)
    /\ Unlock
    /\ setReturn(p, "")
    /\ UNCHANGED <<file, dirOK, events, ctxDone, cpVars, faults, req, call>>

\* the watch goroutine, case event := <-watcher.Events: events of other
\* files are skipped; for the kubeconfig, getClientConfig and the head of
\* setMetalClient run, and any error sends the loop back to the select
WatchEvent ==
    /\ ppc["watch"] = "select"
    /\ events # <<>>
    /\ events' = Tail(events)
    /\ LET r == getClientConfig IN
         IF Head(events) # "kubeconfig" \/ r.err # "" \/ restConfigErr(r.cfg) # ""
         THEN UNCHANGED <<ppc, pcfg>>
         ELSE /\ ppc' = [ppc EXCEPT !["watch"] = "lock"]
              /\ pcfg' = [pcfg EXCEPT !["watch"] = r.cfg]
    /\ UNCHANGED <<file, dirOK, ierr, Client, mu, ctxDone, cpVars, faults, req, call>>

\* mutant of WatchCtxDone: the loop has no case for ctx.Done()
WatchCtxDone_NoCase ==
    /\ ppc["watch"] = "select"
    /\ ctxDone
    /\ UNCHANGED vars

\* the watch goroutine, case <-ctx.Done(): return (the deferred watcher.Close)
WatchCtxDone ==
    /\ ppc["watch"] = "select"
    /\ ctxDone
    /\ ppc' = [ppc EXCEPT !["watch"] = "exited"]
    /\ UNCHANGED <<file, dirOK, events, pcfg, ierr, Client, mu, ctxDone, cpVars, faults, req, call>>

\* the watch goroutine, case err := <-watcher.Errors: klog.Fatalf
WatchError ==
    /\ ppc["watch"] = "select"
    /\ ppc' = [ppc EXCEPT !["watch"] = "fatal"]
    /\ UNCHANGED <<file, dirOK, events, pcfg, ierr, Client, mu, ctxDone, cpVars, faults, req, call>>

(***************************************************************************)
(* Environment of the Provider                                             *)
(***************************************************************************)
\* the kubeconfig is replaced (or removed); a registered watch gets an event
RotateFile ==
    /\ file.ver < MaxVer
    /\ Len(events) < MaxEvents
    /\ \E k \in FileKinds : file' = [kind |-> k, ver |-> file.ver + 1]
    /\ events' = IF Watching THEN Append(events, "kubeconfig") ELSE events
    /\ UNCHANGED <<dirOK, ppc, pcfg, ierr, Client, mu, ctxDone, cpVars, faults, req, call>>

\* another file of the watched directory changes
OtherFileEvent ==
    /\ Watching
    /\ Len(events) < MaxEvents
    /\ events' = Append(events, "other")
    /\ UNCHANGED <<file, dirOK, ppc, pcfg, ierr, Client, mu, ctxDone, cpVars, faults, req, call>>

\* the caller of NewProviderAndNamespace cancels its context
CancelCtx ==
    /\ ~ctxDone
    /\ ctxDone' = TRUE
    /\ UNCHANGED <<file, dirOK, events, ppc, pcfg, ierr, Client, mu, cpVars, faults, req, call>>

(***************************************************************************)
(* Requests                                                                *)
(***************************************************************************)
\* names are sequences of characters
Machines == {<<"m", "1">>, <<"m", "2">>}
Eth0 == <<"e", "0">>
Eth1 == <<"e", "1">>

\* an apiv1alpha1.IPAMConfig entry whose IPAMRef names a pool of group g
IPAMConfigRef(key, g, pool) ==
    [MetadataKey |-> key, IPAMRef |-> [APIGroup |-> g, Kind |-> "GlobalInClusterIPPool", Name |-> pool]]
\* an entry without IPAMRef
IPAMConfigNoRef(key) ==
    [MetadataKey |-> key, IPAMRef |-> [APIGroup |-> Nil, Kind |-> Nil, Name |-> Nil]]
IPAMRefIsNil(networkRef) == networkRef.IPAMRef.Name = Nil

\* the providerSpec.IPAMConfig lists the requests carry
IPAMConfigs ==
    { <<IPAMConfigRef(Eth0, CapiGroup, "pool-a")>>,
      <<IPAMConfigRef(Eth0, CapiGroup, "pool-a"), IPAMConfigRef(Eth1, CapiGroup, "pool-b")>>,
      <<IPAMConfigNoRef(Eth0), IPAMConfigRef(Eth1, CapiGroup, "pool-b")>>,
      <<IPAMConfigRef(Eth0, "ipam.metal.ironcore.dev", "pool-a")>> }

\* a driver.CreateMachineRequest: nil fields are FALSE flags; specValid and
\* renderOK are the verdicts of validation.ValidateProviderSpecAndSecret
\* (with json.Unmarshal) and of ignition.File on this request
Request(isNil, m, hasMachine, hasClass, hasSecret, provider, specValid, userData, renderOK, cfg) ==
    [isNil |-> isNil, Machine |-> m, hasMachine |-> hasMachine, hasClass |-> hasClass,
     hasSecret |-> hasSecret, Provider |-> provider, specValid |-> specValid,
     hasUserData |-> userData, renderOK |-> renderOK, IPAMConfig |-> cfg]

GoodRequest(m, cfg) ==
    Request(FALSE, m, TRUE, TRUE, TRUE, ProviderName, TRUE, TRUE, TRUE, cfg)

\* the good requests for the machine m1, one per IPAMConfig list
GoodRequests == { GoodRequest(<<"m", "1">>, cfg) : cfg \in IPAMConfigs }

\* requests that differ from a good one in the fields CreateMachine checks
BadRequests ==
    LET m == <<"m", "1">>
        cfg == <<IPAMConfigRef(Eth0, CapiGroup, "pool-a")>>
    IN { Request(TRUE, m, TRUE, TRUE, TRUE, ProviderName, TRUE, TRUE, TRUE, cfg),
         Request(FALSE, m, FALSE, TRUE, TRUE, ProviderName, TRUE, TRUE, TRUE, cfg),
         Request(FALSE, m, TRUE, FALSE, TRUE, ProviderName, TRUE, TRUE, TRUE, cfg),
         Request(FALSE, m, TRUE, TRUE, FALSE, ProviderName, TRUE, TRUE, TRUE, cfg),
         Request(FALSE, m, TRUE, TRUE, TRUE, "other-provider", TRUE, TRUE, TRUE, cfg),
         Request(FALSE, m, TRUE, TRUE, FALSE, "other-provider", TRUE, TRUE, TRUE, cfg),
         Request(FALSE, m, TRUE, TRUE, TRUE, ProviderName, FALSE, TRUE, TRUE, cfg),
         Request(FALSE, m, TRUE, TRUE, TRUE, ProviderName, TRUE, FALSE, TRUE, cfg),
         Request(FALSE, m, TRUE, TRUE, TRUE, ProviderName, TRUE, TRUE, FALSE, cfg) }

\* the requests of the call that runs beside the first one: a good request
\* with one entry, for the same machine or for another
ConcurrentRequests ==
    { GoodRequest(m, <<IPAMConfigRef(Eth0, CapiGroup, "pool-a")>>) : m \in Machines }

Requests == GoodRequests \cup BadRequests \cup ConcurrentRequests

\* the requests of the two calls
RequestAssignments ==
    { r \in [Calls -> Requests] :
        /\ r["c1"] \in GoodRequests \cup BadRequests
        /\ r["c2"] \in ConcurrentRequests }

\* mutant of isEmptyCreateRequest: the secret is not checked
isEmptyCreateRequest_NoSecret(r) ==
    r.isNil \/ ~r.hasClass \/ ~r.hasMachine

\* isEmptyCreateRequest
isEmptyCreateRequest(r) ==
    r.isNil \/ ~r.hasClass \/ ~r.hasMachine \/ ~r.hasSecret

\* validateProviderSpecAndSecret: "" or the Internal error
validateProviderSpecAndSecret(r) ==
    IF ~r.hasClass THEN "Internal"
    ELSE IF ~r.specValid THEN "Internal"
    ELSE ""

\* mutant of Prefix: the cut keeps one character less
Prefix_Shorter(s, n) == SubSeq(s, 1, n - 1)

\* s[:n]
Prefix(s, n) == SubSeq(s, 1, n)

\* applyCapiIPAddress: fmt.Sprintf("%s-%s", machineName, networkRef.MetadataKey),
\* cut to DNS1123SubdomainMaxLength
ClaimName(machineName, key) ==
    LET ipAddrClaimName == machineName \o <<"-">> \o key IN
    IF Len(ipAddrClaimName) > DNS1123SubdomainMaxLength
    THEN Prefix(ipAddrClaimName, DNS1123SubdomainMaxLength)
    ELSE ipAddrClaimName

ClaimNames == { ClaimName(m, k) : m \in Machines, k \in {Eth0, Eth1} }

\* applyIPAddresses: the loop handles an entry only when its IPAMRef is set
\* and of the cluster-api group
IsCapiRef(networkRef) ==
    ~IPAMRefIsNil(networkRef) /\ networkRef.IPAMRef.APIGroup = CapiGroup

\* mutant of NextCapi: the loop takes the last entry it handles first
NextCapi_FromLast(cfg, i) ==
    LET S == { j \in i..Len(cfg) : IsCapiRef(cfg[j]) } IN
    IF S = {} THEN Len(cfg) + 1 ELSE CHOOSE j \in S : \A k \in S : k <= j

\* index of the first entry at or after i that the loop handles, Len+1 if none
NextCapi(cfg, i) ==
    LET S == { j \in i..Len(cfg) : IsCapiRef(cfg[j]) } IN
    IF S = {} THEN Len(cfg) + 1 ELSE CHOOSE j \in S : \A k \in S : j <= k

(***************************************************************************)
(* Control-plane objects                                                   *)
(***************************************************************************)
\* no IPAddressClaim of that name / a claim as Create writes it (unbound)
NoClaim == [exists |-> FALSE, PoolRef |-> Nil, AddressRef |-> <<>>, by |-> Nil]
NewClaim(networkRef, c) ==
    [exists |-> TRUE, PoolRef |-> networkRef.IPAMRef.Name, AddressRef |-> <<>>, by |-> c]
\* ipClaim.Status.AddressRef.Name != ""
Bound(ipClaim) == ipClaim.AddressRef # <<>>

NoAddress == [exists |-> FALSE, Address |-> <<>>, Prefix |-> 0, Gateway |-> <<>>]
\* the IPAddress the allocator creates for the claim called name
AddressFor(name) ==
    [exists |-> TRUE, Address |-> <<"ip">> \o name, Prefix |-> 24, Gateway |-> <<"gw">>]

\* d.getIgnitionNameForMachine
getIgnitionNameForMachine(machineName) == machineName \o <<"-", "ignition">>
IgnitionNames == { getIgnitionNameForMachine(m) : m \in Machines }

NoSecret == [exists |-> FALSE, Name |-> <<>>, MetaData |-> <<>>]
NoServerClaim == [exists |-> FALSE, Name |-> <<>>, Power |-> Nil, IgnitionSecretRef |-> <<>>]
\* getProviderIDForServerClaim
getProviderIDForServerClaim(serverClaim) == <<ProviderName>> \o serverClaim.Name
NoResponse == [ProviderID |-> <<>>, NodeName |-> <<>>]

(***************************************************************************)
(* metalDriver.CreateMachine                                               *)
(***************************************************************************)
\* a call that has not been made
IdleCall ==
    [pc |-> "idle", idx |-> 0, metalClient |-> NilHandle, ipClaim |-> NoClaim,
     polls |-> 0, allAddressMetaData |-> <<>>, ignitionSecret |-> NoSecret,
     applied |-> 0, log |-> <<>>, err |-> "", resp |-> NoResponse,
     cancelled |-> FALSE, retry |-> FALSE]

\* one control-plane operation as the call issued it, with what it returned
Op(kind, name, client, result) ==
    [op |-> kind, name |-> name, client |-> client, result |-> result]

\* the outcomes of a control-plane call: a cancelled context fails it, and
\* the transport fails it at most MaxFaults times in a run
Outcomes(cur) ==
    IF cur.cancelled THEN {FALSE}
    ELSE IF faults < MaxFaults THEN BOOLEAN
    ELSE {TRUE}
\* the transport failures so far, after a call with that outcome
Faults(cur, ok) == IF ~ok /\ ~cur.cancelled THEN faults + 1 ELSE faults

\* the operations a call has issued so far, in order; the repeated Get of
\* one poll loop is recorded once
Logged(log, o) ==
    IF o.op = "poll" /\ log # <<>> /\ log[Len(log)] = o THEN log ELSE Append(log, o)

\* the call returns error e; its context and its locals end with it
Return(cur, e) ==
    [cur EXCEPT !.pc = "done", !.err = e, !.cancelled = FALSE, !.ipClaim = NoClaim,
                !.polls = 0, !.metalClient = NilHandle]

\* the IPAMConfig entry and the claim name the call is working on
networkRefOf(c) == req[c].IPAMConfig[call[c].idx]
ipAddrClaimName(c) == ClaimName(req[c].Machine, networkRefOf(c).MetadataKey)

\* the operations that write to the control plane
WriteOps == {"create", "ServerClaim", "Secret"}
\* the call returned an error after one of its writes had succeeded
FailedPartWay(cur) ==
    /\ cur.pc = "done"
    /\ cur.err # ""
    /\ \E i \in 1..Len(cur.log) :
         cur.log[i].op \in WriteOps /\ cur.log[i].result \in {"created", "ok"}

\* CreateMachine from its entry to d.clientProvider.Lock() in
\* applyIPAddresses: the request checks and validateProviderSpecAndSecret.
\* The caller re-invokes with the same request; retry notes that the
\* previous invocation failed part-way
StartCall(c) ==
    /\ call[c].pc \in {"idle", "done"}
    /\ ppc["init"] = "ok"
    /\ Alive
    /\ call' = [call EXCEPT ![c] =
         LET fresh == [IdleCall EXCEPT !.retry = FailedPartWay(call[c])] IN
         IF isEmptyCreateRequest(req[c])
         THEN Return(fresh, "InvalidArgument")
         ELSE IF req[c].Provider # ProviderName
         THEN Return(fresh, "InvalidArgument")
         ELSE IF validateProviderSpecAndSecret(req[c]) # ""
         THEN Return(fresh, validateProviderSpecAndSecret(req[c]))
         ELSE [fresh EXCEPT !.pc = "lockIP"]]
    /\ UNCHANGED <<provVars, mu, cpVars, faults, req>>

\* mutant of LockIP: the mutex is held for the read of d.clientProvider.Client
\* only and released before the allocation
LockIP_ReadOnly(c) ==
    /\ call[c].pc = "lockIP"
    /\ Alive
    /\ mu = Free
    /\ mu' = Free
    /\ call' = [call EXCEPT ![c] =
         [@ EXCEPT !.metalClient = Client,
                   !.idx = NextCapi(req[c].IPAMConfig, 1),
                   !.pc = IF NextCapi(req[c].IPAMConfig, 1) <= Len(req[c].IPAMConfig)
                          THEN "lookup" ELSE "retIP"]]
    /\ UNCHANGED <<provVars, cpVars, faults, req>>

\* applyIPAddresses: d.clientProvider.Lock(); metalClient := d.clientProvider.Client
LockIP(c) ==
    /\ call[c].pc = "lockIP"
    /\ Alive
    /\ Lock(c)
    /\ call' = [call EXCEPT ![c] =
         [@ EXCEPT !.metalClient = Client,
                   !.idx = NextCapi(req[c].IPAMConfig, 1),
                   !.pc = IF NextCapi(req[c].IPAMConfig, 1) <= Len(req[c].IPAMConfig)
                          THEN "lookup" ELSE "retIP"]]
    /\ UNCHANGED <<provVars, cpVars, faults, req>>

\* mutant of lookupNext: the claim is created whether or not it was found
lookupNext_AlwaysCreate(found, ipClaim) == "create"

\* mutant of lookupNext: a claim that was found is never taken as ready
lookupNext_NeverReady(found, ipClaim) ==
    IF ~found THEN "create" ELSE "notready"

\* where applyCapiIPAddress goes after metalClient.Get of the claim succeeded
\* or reported NotFound
lookupNext(found, ipClaim) ==
    IF ~found THEN "create"
    ELSE IF ~Bound(ipClaim) THEN "notready"
    ELSE "resolve"

\* applyCapiIPAddress: metalClient.Get(ctx, ipAddrClaimKey, ipClaim)
Lookup(c) ==
    /\ call[c].pc = "lookup"
    /\ Alive
    /\ LET cur == call[c]
           name == ipAddrClaimName(c)
           got == IF ~claims[name].exists THEN "NotFound"
                  ELSE IF Bound(claims[name]) THEN "bound" ELSE "unbound"
       IN \E ok \in Outcomes(cur) :
          /\ faults' = Faults(cur, ok)
          /\ LET logged == [cur EXCEPT !.log =
                     Logged(@, Op("get", name, cur.metalClient, IF ok THEN got ELSE "error"))]
             IN
               IF ~ok
               THEN /\ call' = [call EXCEPT ![c] = Return(logged, "LookupError")]
                    /\ Unlock
               ELSE LET next == lookupNext(claims[name].exists, claims[name]) IN
                    IF next = "notready"
                    THEN /\ call' = [call EXCEPT ![c] = Return(logged, "IP address claim isn't ready")]
                         /\ Unlock
                    ELSE IF next = "create" /\ IPAMRefIsNil(networkRefOf(c))
                    THEN /\ call' = [call EXCEPT ![c] = Return(logged, "ipamRef of an ipamConfig is not set")]
                         /\ Unlock
                    ELSE /\ call' = [call EXCEPT ![c] =
                               [logged EXCEPT !.pc = next,
                                              !.ipClaim = IF next = "resolve" THEN claims[name] ELSE NoClaim]]
                         /\ UNCHANGED mu
    /\ UNCHANGED <<provVars, cpVars, req>>

\* applyCapiIPAddress: metalClient.Create(ctx, ipClaim)
Create(c) ==
    /\ call[c].pc = "create"
    /\ Alive
    /\ LET cur == call[c]
           name == ipAddrClaimName(c)
       IN \E ok \in Outcomes(cur) :
          /\ faults' = Faults(cur, ok)
          /\ LET logged == [cur EXCEPT !.log =
                     Logged(@, Op("create", name, cur.metalClient,
                                  IF ~ok THEN "error"
                                  ELSE IF claims[name].exists THEN "AlreadyExists" ELSE "created"))]
             IN
               IF ~ok
               THEN /\ call' = [call EXCEPT ![c] = Return(logged, "error creating IP")]
                    /\ Unlock
                    /\ UNCHANGED claims
               ELSE IF claims[name].exists
               THEN /\ call' = [call EXCEPT ![c] = Return(logged, "error creating IP: already exists")]
                    /\ Unlock
                    /\ UNCHANGED claims
               ELSE /\ claims' = [claims EXCEPT ![name] = NewClaim(networkRefOf(c), c)]
                    /\ call' = [call EXCEPT ![c] =
                          [logged EXCEPT !.pc = "poll", !.polls = 0,
                                         !.ipClaim = NewClaim(networkRefOf(c), c)]]
                    /\ UNCHANGED mu
    /\ UNCHANGED <<provVars, addresses, serverClaims, secrets, req>>

\* mutant of PollDue: the poll has no deadline
PollDue_NoDeadline(polls) == TRUE

\* wait.PollUntilContextTimeout(ctx, 50ms, 340ms, true, ...): the condition
\* runs at once and then every PollInterval while the deadline has not passed
PollDue(polls) == polls * PollInterval < PollTimeout

\* one run of the poll condition: metalClient.Get of the claim (NotFound
\* leaves ipClaim as it was), then ipClaim.Status.AddressRef.Name != ""
Poll(c) ==
    /\ call[c].pc = "poll"
    /\ Alive
    /\ ~call[c].cancelled
    /\ PollDue(call[c].polls)
    /\ LET cur == call[c]
           name == ipAddrClaimName(c)
           logged == [cur EXCEPT !.log = Logged(@, Op("poll", name, cur.metalClient, "")),
                                 !.polls = @ + 1]
           got == IF claims[name].exists THEN claims[name] ELSE cur.ipClaim
       IN \E ok \in Outcomes(cur) :
          /\ faults' = Faults(cur, ok)
          /\ IF ~ok
               THEN /\ call' = [call EXCEPT ![c] = Return(logged, "PollError")]
                    /\ Unlock
               ELSE /\ call' = [call EXCEPT ![c] =
                          [logged EXCEPT !.ipClaim = got,
                                         !.polls = IF Bound(got) THEN 0 ELSE @,
                                         !.pc = IF Bound(got) THEN "resolve" ELSE "poll"]]
                    /\ UNCHANGED mu
    /\ UNCHANGED <<provVars, cpVars, req>>

\* mutant of PollExpire: the claim the call waited for is deleted again
PollExpire_RollsBack(c) ==
    /\ call[c].pc = "poll"
    /\ Alive
    /\ ~call[c].cancelled
    /\ ~PollDue(call[c].polls)
    /\ call' = [call EXCEPT ![c] = Return(@, "context deadline exceeded")]
    /\ Unlock
    /\ claims' = [claims EXCEPT ![ipAddrClaimName(c)] = NoClaim]
    /\ UNCHANGED <<provVars, addresses, serverClaims, secrets, faults, req>>

\* the poll's deadline passes with the claim unbound: context deadline exceeded
PollExpire(c) ==
    /\ call[c].pc = "poll"
    /\ Alive
    /\ ~call[c].cancelled
    /\ ~PollDue(call[c].polls)
    /\ call' = [call EXCEPT ![c] = Return(@, "context deadline exceeded")]
    /\ Unlock
    /\ UNCHANGED <<provVars, cpVars, faults, req>>

\* the poll sees ctx.Done(): it returns ctx.Err()
PollCancelled(c) ==
    /\ call[c].pc = "poll"
    /\ Alive
    /\ call[c].cancelled
    /\ call' = [call EXCEPT ![c] = Return(@, "context canceled")]
    /\ Unlock
    /\ UNCHANGED <<provVars, cpVars, faults, req>>

\* the map applyCapiIPAddress returns for an entry
AddressMetaData(networkRef, ipAddr) ==
    [key |-> networkRef.MetadataKey, ip |-> ipAddr.Address,
     prefix |-> ipAddr.Prefix, gateway |-> ipAddr.Gateway]

\* applyCapiIPAddress: metalClient.Get(ctx, ipAddrKey, ipAddr) and the return
\* to the loop of applyIPAddresses, which appends and goes to the next entry
Resolve(c) ==
    /\ call[c].pc = "resolve"
    /\ Alive
    /\ LET cur == call[c]
           addr == cur.ipClaim.AddressRef
           next == NextCapi(req[c].IPAMConfig, cur.idx + 1)
       IN \E ok \in Outcomes(cur) :
          /\ faults' = Faults(cur, ok)
          /\ LET logged == [cur EXCEPT !.log =
                     Logged(@, Op("getaddr", addr, cur.metalClient,
                                  IF ok /\ addresses[addr].exists THEN "ok" ELSE "error"))]
             IN
               IF ~ok \/ ~addresses[addr].exists
               THEN /\ call' = [call EXCEPT ![c] = Return(logged, "ResolveError")]
                    /\ Unlock
               ELSE /\ call' = [call EXCEPT ![c] =
                          [logged EXCEPT
                             !.allAddressMetaData = Append(@, AddressMetaData(networkRefOf(c), addresses[addr])),
                             !.idx = next,
                             !.pc = IF next <= Len(req[c].IPAMConfig) THEN "lookup" ELSE "retIP"]]
                    /\ UNCHANGED mu
    /\ UNCHANGED <<provVars, cpVars, req>>

\* a value of a map[string]any: a leaf, or a nested map
Leaf(x) == [isMap |-> FALSE, val |-> x, map |-> <<>>]
Map(f) == [isMap |-> TRUE, val |-> <<>>, map |-> f]
\* make(map[string]any)
EmptyMap == <<>>

\* providerSpec.Metadata as json.Unmarshal fills it from the raw provider
\* spec of the request, an empty map when the raw spec has none
Metadata(r) == IF "Metadata" \in DOMAIN r THEN r.Metadata ELSE EmptyMap

\* the map applyCapiIPAddress returns, as a map[string]any
Fragment(md) ==
    md.key :> Map([l \in {"ip", "prefix", "gateway"} |->
                     Leaf(IF l = "ip" THEN md.ip ELSE IF l = "prefix" THEN md.prefix ELSE md.gateway)])

\* mutant of Merge: a key both maps have keeps the destination's value
Merge_KeepDst(dst, src) ==
    [k \in DOMAIN dst \cup DOMAIN src |-> IF k \in DOMAIN dst THEN dst[k] ELSE src[k]]

\* mergo.Merge(&dst, src, mergo.WithOverride) on maps: keys of src are
\* written over those of dst, two nested maps are merged key by key
RECURSIVE Merge(_, _)
Merge(dst, src) ==
    [k \in DOMAIN dst \cup DOMAIN src |->
        IF k \notin DOMAIN src THEN dst[k]
        ELSE IF k \notin DOMAIN dst THEN src[k]
        ELSE IF dst[k].isMap /\ src[k].isMap THEN Map(Merge(dst[k].map, src[k].map))
        ELSE src[k]]

\* applyIgnition: the loop that merges every element of addressMetaData into
\* providerSpec.Metadata, from the first to the last
RECURSIVE Compose(_, _)
Compose(base, fragments) ==
    IF fragments = <<>> THEN base
    ELSE Compose(Merge(base, Head(fragments)), Tail(fragments))

\* applyIgnition: "" or the error it returns
applyIgnitionErr(r) ==
    IF ~r.hasUserData THEN "failed to find user-data in machine secret"
    ELSE IF ~r.renderOK THEN "failed to create ignition file"
    ELSE ""

\* applyIPAddresses returns its list (the deferred Unlock runs), applyIgnition
\* builds the ignition secret, applyServerClaim builds the ServerClaim
ReturnIP(c) ==
    /\ call[c].pc = "retIP"
    /\ Alive
    /\ Unlock
    /\ call' = [call EXCEPT ![c] =
         IF applyIgnitionErr(req[c]) # ""
         THEN Return(@, applyIgnitionErr(req[c]))
         ELSE [@ EXCEPT !.pc = "lockSC",
                        !.metalClient = NilHandle,
                        !.ignitionSecret =
                            [exists |-> TRUE,
                             Name |-> getIgnitionNameForMachine(req[c].Machine),
                             MetaData |->
                                 Compose(Metadata(req[c]),
                                         [i \in 1..Len(call[c].allAddressMetaData) |->
                                             Fragment(call[c].allAddressMetaData[i])])]]]
    /\ UNCHANGED <<provVars, cpVars, faults, req>>

\* mutant of LockSC: applyServerClaim goes on with the client that
\* applyIPAddresses used
LockSC_KeepsHandle(c) ==
    /\ call[c].pc = "lockSC"
    /\ Alive
    /\ Lock(c)
    /\ call' = [call EXCEPT ![c] =
         [@ EXCEPT !.metalClient = IF call[c].log # <<>> THEN call[c].log[1].client ELSE Client,
                   !.pc = "patch"]]
    /\ UNCHANGED <<provVars, cpVars, faults, req>>

\* applyServerClaim: d.clientProvider.Lock(); metalClient := d.clientProvider.Client
LockSC(c) ==
    /\ call[c].pc = "lockSC"
    /\ Alive
    /\ Lock(c)
    /\ call' = [call EXCEPT ![c] = [@ EXCEPT !.metalClient = Client, !.pc = "patch"]]
    /\ UNCHANGED <<provVars, cpVars, faults, req>>

\* mutant of applyOrder: the call returns after the ServerClaim apply
applyOrder_OnlyReservation == <<"ServerClaim">>

\* applyServerClaim: the objects its two metalClient.Patch calls apply, in order
applyOrder == <<"ServerClaim", "Secret">>

\* the ServerClaim applyServerClaim builds
serverClaimOf(c) ==
    [exists |-> TRUE, Name |-> req[c].Machine, Power |-> "On",
     IgnitionSecretRef |-> call[c].ignitionSecret.Name]

\* applyServerClaim: one metalClient.Patch(ctx, obj, client.Apply, fieldOwner,
\* client.ForceOwnership); after the second the call returns its response
Patch(c) ==
    /\ call[c].pc = "patch"
    /\ Alive
    /\ LET cur == call[c]
           kind == applyOrder[cur.applied + 1]
           name == IF kind = "ServerClaim" THEN req[c].Machine ELSE cur.ignitionSecret.Name
       IN \E ok \in Outcomes(cur) :
          /\ faults' = Faults(cur, ok)
          /\ LET logged == [cur EXCEPT !.log =
                     Logged(@, Op(kind, name, cur.metalClient, IF ok THEN "ok" ELSE "error")),
                                       !.applied = @ + 1]
             IN
               IF ~ok
               THEN /\ call' = [call EXCEPT ![c] =
                          Return(logged, IF kind = "ServerClaim"
                                         THEN "error applying metal machine"
                                         ELSE "error applying ignition secret")]
                    /\ Unlock
                    /\ UNCHANGED <<serverClaims, secrets>>
               ELSE /\ IF kind = "ServerClaim"
                       THEN /\ serverClaims' = [serverClaims EXCEPT ![name] = serverClaimOf(c)]
                            /\ UNCHANGED secrets
                       ELSE /\ secrets' = [secrets EXCEPT ![name] = cur.ignitionSecret]
                            /\ UNCHANGED serverClaims
                    /\ IF logged.applied = Len(applyOrder)
                       THEN /\ call' = [call EXCEPT ![c] =
                                  [logged EXCEPT !.pc = "done", !.cancelled = FALSE,
                                     !.metalClient = NilHandle,
                                     !.resp = [ProviderID |-> getProviderIDForServerClaim(serverClaimOf(c)),
                                               NodeName |-> serverClaimOf(c).Name]]]
                            /\ Unlock
                       ELSE /\ call' = [call EXCEPT ![c] = logged]
                            /\ UNCHANGED mu
    /\ UNCHANGED <<provVars, claims, addresses, req>>

(***************************************************************************)
(* Environment of the driver                                               *)
(***************************************************************************)
\* the caller of CreateMachine cancels the call's context
CancelCall(c) ==
    /\ call[c].pc \notin {"idle", "done"}
    /\ ~call[c].cancelled
    /\ call' = [call EXCEPT ![c] = [@ EXCEPT !.cancelled = TRUE]]
    /\ UNCHANGED <<provVars, mu, cpVars, faults, req>>

\* the external IPAM allocator binds a pending claim: it creates the
\* IPAddress and sets the claim's Status.AddressRef
Bind(name) ==
    /\ claims[name].exists
    /\ ~Bound(claims[name])
    /\ addresses' = [addresses EXCEPT ![name] = AddressFor(name)]
    /\ claims' = [claims EXCEPT ![name] = [@ EXCEPT !.AddressRef = name]]
    /\ UNCHANGED <<provVars, mu, serverClaims, secrets, faults, req, call>>

(***************************************************************************)
(* Specifications                                                          *)
(***************************************************************************)
EmptyControlPlane ==
    /\ claims = [n \in ClaimNames |-> NoClaim]
    /\ addresses = [n \in ClaimNames |-> NoAddress]
    /\ serverClaims = [m \in Machines |-> NoServerClaim]
    /\ secrets = [n \in IgnitionNames |-> NoSecret]
    /\ faults = 0

\* the steps of a CreateMachine call whose context is not cancelled
CallStep(c) ==
    \/ StartCall(c)
    \/ LockIP(c)
    \/ Lookup(c)
    \/ Create(c)
    \/ Poll(c)
    \/ PollExpire(c)
    \/ Resolve(c)
    \/ ReturnIP(c)
    \/ LockSC(c)
    \/ Patch(c)

\* the steps of a CreateMachine call and the cancellation of its context
DriverStep(c) ==
    \/ CallStep(c)
    \/ PollCancelled(c)
    \/ CancelCall(c)

ProviderStep ==
    \/ InitWatch
    \/ InitGetConfig
    \/ \E p \in Procs : SetLock(p) \/ SetNew(p) \/ SetAssign(p)
    \/ WatchEvent
    \/ WatchCtxDone
    \/ WatchError
    \/ RotateFile
    \/ OtherFileEvent
    \/ CancelCtx

\* after NewProviderAndNamespace returned its provider: the client built from
\* the first kubeconfig is installed and the watch goroutine is in its select
Initialized ==
    /\ file = [kind |-> "valid", ver |-> 1]
    /\ dirOK = TRUE
    /\ events = <<>>
    /\ ppc = [p \in Procs |-> IF p = "init" THEN "ok" ELSE "select"]
    /\ pcfg = [p \in Procs |-> IF p = "init" THEN file ELSE NoCfg]
    /\ ierr = ""
    /\ Client = Handle(1)
    /\ mu = Free
    /\ ctxDone = FALSE

Init ==
    /\ Initialized
    /\ EmptyControlPlane
    /\ req \in RequestAssignments
    /\ call = [c \in Calls |-> IdleCall]

Next ==
    \/ \E c \in Calls : DriverStep(c)
    \/ \E name \in ClaimNames : Bind(name)

Spec == Init /\ [][Next]_vars

(***************************************************************************)
(* Properties of CreateMachine                                             *)
(***************************************************************************)
\* the call has issued an operation of one of these kinds
HasOp(cur, kinds) == \E i \in 1..Len(cur.log) : cur.log[i].op \in kinds
\* number of IPAddressClaim creates the call has issued for the claim n
Creates(cur, n) ==
    Cardinality({ i \in 1..Len(cur.log) : cur.log[i].op = "create" /\ cur.log[i].name = n })
\* the call is inside applyIPAddresses or applyServerClaim, past the Lock
InSection(cur) == cur.pc \in {"lookup", "create", "poll", "resolve", "retIP", "patch"}

\* C1: a request whose provider is not this driver's, or that lacks its
\* machine, machine class or secret, is answered InvalidArgument at once:
\* the call is over after its first step, has no response and has issued no
\* control-plane operation at all.
C1_InvalidRequestRejected ==
    \A c \in Calls :
        ( /\ call[c].pc # "idle"
          /\ \/ req[c].Provider # ProviderName
             \/ ~req[c].hasMachine
             \/ ~req[c].hasClass
             \/ ~req[c].hasSecret )
        => /\ call[c].pc = "done"
           /\ call[c].err = "InvalidArgument"
           /\ call[c].resp = NoResponse
           /\ call[c].log = <<>>

\* a call with a foreign provider tag and one without secret have returned
C1_Witness ==
    \E c \in Calls :
        /\ req[c].Provider # ProviderName
        /\ req[c].hasSecret
        /\ call[c].pc = "done"
        /\ call[c].err = "InvalidArgument"

\* C2: a call issues at most one create per claim; when its Get of the claim
\* answered NotFound the very next operation is the one create of that
\* claim, and when the Get found the claim bound the call issues no create
\* for it and only reads (the claim, then its address).
C2_OneCreatePerReference ==
    \A c \in Calls : \A n \in ClaimNames :
        LET cur == call[c] IN
        /\ Creates(cur, n) <= 1
        /\ \A i \in 1..Len(cur.log) :
             (cur.log[i].op = "get" /\ cur.log[i].name = n) =>
                /\ cur.log[i].result = "NotFound" =>
                     IF i = Len(cur.log)
                     THEN cur.pc = "create"
                     ELSE /\ cur.log[i + 1].op = "create"
                          /\ cur.log[i + 1].name = n
                          /\ Creates(cur, n) = 1
                /\ cur.log[i].result = "bound" =>
                     /\ Creates(cur, n) = 0
                     /\ \A j \in 1..Len(cur.log) :
                          cur.log[j].name = n => cur.log[j].op \in {"get", "getaddr"}
                     /\ i < Len(cur.log) => cur.log[i + 1].op = "getaddr"

\* one call created the claim, and an identical request issued afterwards
\* found it bound and succeeded
C2_Witness ==
    \E c \in Calls : \E d \in Calls \ {c} : \E n \in ClaimNames :
        /\ req[c] = req[d]
        /\ \E i \in 1..Len(call[c].log) :
             /\ call[c].log[i].op = "create"
             /\ call[c].log[i].name = n
             /\ call[c].log[i].result = "created"
        /\ \E i \in 1..Len(call[d].log) :
             /\ call[d].log[i].op = "get"
             /\ call[d].log[i].name = n
             /\ call[d].log[i].result = "bound"
        /\ call[d].pc = "done"
        /\ call[d].err = ""

\* the number of times the poll condition can run before the deadline
MaxPolls == (PollTimeout + PollInterval - 1) \div PollInterval

\* C3: the poll condition runs at most MaxPolls times, and a call that ended
\* with the poll's deadline error is over, has no response, ended on a poll
\* and has applied neither the ServerClaim nor the ignition secret.
C3_PollTimeout ==
    \A c \in Calls :
        LET cur == call[c] IN
        /\ cur.polls <= MaxPolls
        /\ cur.err = "context deadline exceeded" =>
             /\ cur.pc = "done"
             /\ cur.resp = NoResponse
             /\ cur.applied = 0
             /\ ~HasOp(cur, {"ServerClaim", "Secret"})
             /\ cur.log[Len(cur.log)].op = "poll"

\* a call has timed out on a claim it created, which is still unbound
C3_Witness ==
    \E c \in Calls : \E n \in ClaimNames :
        /\ call[c].err = "context deadline exceeded"
        /\ HasOp(call[c], {"create"})
        /\ claims[n].exists
        /\ ~Bound(claims[n])

\* C4: no call has applied the ServerClaim (the reservation) without having
\* applied the ignition secret (the artifact) before.
C4_ArtifactBeforeReservation ==
    \A c \in Calls :
        HasOp(call[c], {"ServerClaim"}) => HasOp(call[c], {"Secret"})

\* C9: the poll loop runs inside the section that holds Provider.mu: while
\* one call polls, it holds the mutex, no other call is past a Lock, and a
\* call that has reached a Lock cannot take it.
C9_PollHoldsMutex ==
    \A c \in Calls : \A d \in Calls \ {c} :
        call[c].pc = "poll" =>
            /\ mu = c
            /\ ~InSection(call[d])
            /\ call[d].pc = "lockIP" => ~ENABLED LockIP(d)
            /\ call[d].pc = "lockSC" => ~ENABLED LockSC(d)

\* one call polls while a call for another machine waits at the Lock of
\* applyIPAddresses
C9_Witness ==
    \E c \in Calls : \E d \in Calls \ {c} :
        /\ req[c].Machine # req[d].Machine
        /\ call[c].pc = "poll"
        /\ call[c].polls > 1
        /\ call[d].pc = "lockIP"

\* C9 as the specification states it: while one call polls, a call for a
\* different machine that is about to allocate can take its next step.
C9_PollBlocksOnlyCaller ==
    \A c \in Calls : \A d \in Calls \ {c} :
        ( /\ req[c].Machine # req[d].Machine
          /\ call[c].pc = "poll"
          /\ call[d].pc = "lockIP" )
        => ENABLED LockIP(d)

\* the call waits where it can be kept waiting: in the poll loop, or at a
\* Lock while the mutex is held
Blocked(c) ==
    \/ call[c].pc = "poll"
    \/ call[c].pc \in {"lockIP", "lockSC"} /\ mu # Free

\* the call can return an error as its next step
CanReturnError(c) ==
    ENABLED (DriverStep(c) /\ call'[c].pc = "done" /\ call'[c].err # "")

\* C10: a call whose context is cancelled while it is blocked can stop
\* waiting and return an error at once.
C10_BlockedCallsAcceptCancellation ==
    \A c \in Calls :
        (Blocked(c) /\ call[c].cancelled) => CanReturnError(c)

\* the entries of an IPAMConfig list that the loop of applyIPAddresses handles
Handled(cfg) == { i \in 1..Len(cfg) : IsCapiRef(cfg[i]) }
\* the call has returned without error
Succeeded(cur) == cur.pc = "done" /\ cur.err = ""
\* the call has issued that operation on that object with that result
Did(cur, kind, name, result) ==
    \E i \in 1..Len(cur.log) :
        cur.log[i].op = kind /\ cur.log[i].name = name /\ cur.log[i].result = result
\* the call has read the address of the entry i of its request
ResolvedEntry(c, i) ==
    Did(call[c], "getaddr", ClaimName(req[c].Machine, req[c].IPAMConfig[i].MetadataKey), "ok")

C14_FoundUnboundWaits ==
    \A c \in Calls : \A i \in 1..Len(call[c].log) :
        (call[c].log[i].op = "get" /\ call[c].log[i].result = "unbound") =>
            IF i = Len(call[c].log)
            THEN call[c].pc = "poll"
            ELSE call[c].log[i + 1].op = "poll" /\ call[c].log[i + 1].name = call[c].log[i].name

\* the entries of the call's IPAMConfig list that have no IPAMRef and whose
\* claim does not exist
MissingRef(c) ==
    { i \in 1..Len(req[c].IPAMConfig) :
        /\ IPAMRefIsNil(req[c].IPAMConfig[i])
        /\ ~claims[ClaimName(req[c].Machine, req[c].IPAMConfig[i].MetadataKey)].exists }

\* C15: a call whose IPAMConfig list has an entry without IPAMRef, for a
\* claim that does not exist, fails in the allocation: it never leaves
\* applyIPAddresses with a list, applies neither the ServerClaim nor the
\* ignition secret and has no response.
C15_MissingIPAMRefFails ==
    \A c \in Calls :
        MissingRef(c) # {} =>
            /\ call[c].pc \notin {"retIP", "lockSC", "patch"}
            /\ ~HasOp(call[c], {"ServerClaim", "Secret"})
            /\ call[c].resp = NoResponse

(***************************************************************************)
(* Claim names at the maximum length                                       *)
(***************************************************************************)
\* a name of n characters
As(n) == [i \in 1..n |-> "a"]
\* a machine name whose claim names are exactly of the maximum length
FitMachine == As(DNS1123SubdomainMaxLength - 3)
\* machine names that differ only past the maximum length
LongA == As(DNS1123SubdomainMaxLength) \o <<"x">>
LongB == As(DNS1123SubdomainMaxLength) \o <<"y">>
NameMachines == {<<"m", "1">>, FitMachine, LongA, LongB}
MetadataKeys == {Eth0, Eth1}
NameClaimNames == { ClaimName(m, k) : m \in NameMachines, k \in MetadataKeys }

\* a request with two entries for a machine whose claim names fit exactly or
\* are cut, beside a request for the other long machine name
NameAssignments ==
    { r \in [Calls -> { GoodRequest(m, cfg) : m \in NameMachines, cfg \in IPAMConfigs }] :
        /\ r["c1"].Machine \in {FitMachine, LongA}
        /\ r["c1"].IPAMConfig =
             <<IPAMConfigRef(Eth0, CapiGroup, "pool-a"), IPAMConfigRef(Eth1, CapiGroup, "pool-b")>>
        /\ r["c2"] = GoodRequest(LongB, <<IPAMConfigRef(Eth0, CapiGroup, "pool-a")>>) }

InitNames ==
    /\ Initialized
    /\ claims = [n \in NameClaimNames |-> NoClaim]
    /\ addresses = [n \in NameClaimNames |-> NoAddress]
    /\ serverClaims = [m \in NameMachines |-> NoServerClaim]
    /\ secrets = [n \in { getIgnitionNameForMachine(m) : m \in NameMachines } |-> NoSecret]
    /\ faults = 0
    /\ req \in NameAssignments
    /\ call = [c \in Calls |-> IdleCall]

\* no call is cancelled
NextNames ==
    \/ \E c \in Calls : CallStep(c)
    \/ \E name \in NameClaimNames : Bind(name)

SpecNames == InitNames /\ [][NextNames]_vars

\* "<machine>-<key>" before any cut
FullName(m, k) == m \o <<"-">> \o k
Min(a, b) == IF a < b THEN a ELSE b

\* the claim name is the full name when that fits and otherwise its first
\* DNS1123SubdomainMaxLength characters
ClaimNameIsCutFullName ==
    \A m \in NameMachines : \A k \in MetadataKeys :
        LET full == FullName(m, k)
            name == ClaimName(m, k)
        IN /\ Len(name) = Min(Len(full), DNS1123SubdomainMaxLength)
           /\ \A j \in 1..Len(name) : name[j] = full[j]

\* two inputs whose full names agree on the first DNS1123SubdomainMaxLength
\* characters
SharePrefix(m1, k1, m2, k2) ==
    /\ Len(FullName(m1, k1)) >= DNS1123SubdomainMaxLength
    /\ Len(FullName(m2, k2)) >= DNS1123SubdomainMaxLength
    /\ \A j \in 1..DNS1123SubdomainMaxLength : FullName(m1, k1)[j] = FullName(m2, k2)[j]

\* such inputs have the same claim name, and no others have
CollideExactlyOnSharedPrefix ==
    \A m1 \in NameMachines : \A k1 \in MetadataKeys :
    \A m2 \in NameMachines : \A k2 \in MetadataKeys :
        <<m1, k1>> # <<m2, k2>> =>
            (ClaimName(m1, k1) = ClaimName(m2, k2) <=> SharePrefix(m1, k1, m2, k2))

\* the successful creates of the claim n in the logs of all calls
CreatedBy(n) ==
    UNION { { <<c, i>> : i \in { j \in 1..Len(call[c].log) :
                                   /\ call[c].log[j].op = "create"
                                   /\ call[c].log[j].name = n
                                   /\ call[c].log[j].result = "created" } } : c \in Calls }

\* C12: the claim name is "<machine>-<key>" when that fits the maximum length
\* and its prefix of exactly that length otherwise; inputs that share that
\* prefix have the same claim name. In a call whose two entries collide, the
\* second entry finds the claim of the first: the call creates the claim at
\* most once and both entries get the same address; the claim is created at
\* most once by all calls together.
C12_ClaimNameTruncation ==
    /\ ClaimNameIsCutFullName
    /\ CollideExactlyOnSharedPrefix
    /\ \A n \in NameClaimNames : Cardinality(CreatedBy(n)) <= 1
    /\ \A c \in Calls :
         LET cur == call[c]
             cfg == req[c].IPAMConfig
             md == cur.allAddressMetaData
         IN (Len(cfg) = 2 /\ Len(md) = 2) =>
              /\ md[1].key = cfg[1].MetadataKey
              /\ md[2].key = cfg[2].MetadataKey
              /\ IF ClaimName(req[c].Machine, cfg[1].MetadataKey) = ClaimName(req[c].Machine, cfg[2].MetadataKey)
                 THEN /\ md[1].ip = md[2].ip
                      /\ Creates(cur, ClaimName(req[c].Machine, cfg[1].MetadataKey)) <= 1
                 ELSE md[1].ip # md[2].ip

\* a call for the long machine name has created one claim and succeeded with
\* the address of that claim for both of its entries
C12_Witness ==
    \E c \in Calls :
        /\ req[c].Machine = LongA
        /\ Succeeded(call[c])
        /\ Creates(call[c], ClaimName(LongA, Eth0)) = 1
        /\ Len(call[c].allAddressMetaData) = 2
        /\ call[c].allAddressMetaData[1].ip = call[c].allAddressMetaData[2].ip

(***************************************************************************)
(* The metadata applyIgnition composes                                     *)
(***************************************************************************)
HostKey == <<"h", "o", "s", "t">>

\* the base metadata of the requests: none, a key no entry uses, a nested map
\* under the key of an entry, a leaf under the key of an entry
Bases ==
    { EmptyMap,
      HostKey :> Leaf(<<"n">>),
      (HostKey :> Leaf(<<"n">>)) @@
          (Eth0 :> Map(("ip" :> Leaf(<<"old">>)) @@ ("mtu" :> Leaf(<<"1500">>)))),
      Eth0 :> Leaf(<<"x">>) }

\* a good request whose raw provider spec carries the metadata base
ComposeRequest(m, cfg, base) ==
    [f \in DOMAIN GoodRequest(m, cfg) \cup {"Metadata"} |->
        IF f = "Metadata" THEN base ELSE GoodRequest(m, cfg)[f]]

ComposeAssignments ==
    { r \in [Calls -> { ComposeRequest(<<"m", "1">>, cfg, base) : cfg \in IPAMConfigs, base \in Bases }
                      \cup BadRequests] :
        /\ r["c1"] \in { ComposeRequest(<<"m", "1">>, cfg, base) : cfg \in IPAMConfigs, base \in Bases }
        /\ r["c1"].Metadata # EmptyMap
        /\ Handled(r["c1"].IPAMConfig) # {}
        /\ r["c2"] \in BadRequests
        /\ r["c2"].isNil }

InitCompose ==
    /\ Initialized
    /\ EmptyControlPlane
    /\ req \in ComposeAssignments
    /\ call = [c \in Calls |-> IdleCall]

\* no call is cancelled
NextCompose ==
    \/ \E c \in Calls : CallStep(c)
    \/ \E name \in ClaimNames : Bind(name)

SpecCompose == InitCompose /\ [][NextCompose]_vars

\* the map has a leaf or a nested map l under the nested map k
Has(m, k, l) == k \in DOMAIN m /\ m[k].isMap /\ l \in DOMAIN m[k].map
At(m, k, l) == m[k].map[l]
\* the fragments with a value at that place
Holders(fragments, k, l) == { i \in 1..Len(fragments) : Has(fragments[i], k, l) }
Last(S) == CHOOSE i \in S : \A j \in S : j <= i

\* what Compose has to return for that base and these fragments, all of
\* which are maps of nested maps: the keys are those of the base and of the
\* fragments, a place some fragment fills holds the value of the last
\* fragment that fills it, any other place of the base holds the base's value
Composed(base, fragments, result) ==
    LET fkeys == UNION { DOMAIN fragments[i] : i \in 1..Len(fragments) } IN
    /\ DOMAIN result = DOMAIN base \cup fkeys
    /\ \A k \in fkeys :
         /\ result[k].isMap
         /\ \A l \in DOMAIN result[k].map :
              IF Holders(fragments, k, l) # {}
              THEN At(result, k, l) = At(fragments[Last(Holders(fragments, k, l))], k, l)
              ELSE Has(base, k, l) /\ At(result, k, l) = At(base, k, l)
         /\ \A i \in 1..Len(fragments) :
              k \in DOMAIN fragments[i] => DOMAIN fragments[i][k].map \subseteq DOMAIN result[k].map
         /\ (k \in DOMAIN base /\ base[k].isMap) => DOMAIN base[k].map \subseteq DOMAIN result[k].map
    /\ \A k \in DOMAIN base \ fkeys : result[k] = base[k]

\* fragments as applyCapiIPAddress returns them, with different addresses
TestFragments ==
    { Fragment([key |-> k, ip |-> ip, prefix |-> 24, gateway |-> <<"gw">>]) :
        k \in MetadataKeys, ip \in {<<"1">>, <<"2">>} }
TestFragmentLists ==
    {<<>>} \cup { <<f>> : f \in TestFragments } \cup { <<f, g>> : f \in TestFragments, g \in TestFragments }

\* Compose on every base and every list of up to two fragments
ComposeMergesInOrder ==
    \A base \in Bases : \A fragments \in TestFragmentLists :
        Composed(base, fragments, Compose(base, fragments))

\* C13: the metadata of the ignition is the base of the request's provider
\* spec with every fragment merged into it in list order: a leaf a fragment
\* has holds the value of the last fragment that has it, a nested map of the
\* base under the key of a fragment keeps its other keys, a key of the base no
\* fragment has keeps its value; and no step changes the request.
C13_ComposeDeepMerges ==
    /\ [](/\ ComposeMergesInOrder
          /\ \A c \in Calls :
               call[c].ignitionSecret.exists =>
                   Composed(Metadata(req[c]),
                            [i \in 1..Len(call[c].allAddressMetaData) |->
                                Fragment(call[c].allAddressMetaData[i])],
                            call[c].ignitionSecret.MetaData))
    /\ [][req' = req]_vars

\* a call whose base has a nested map under the key of its entry has built
\* its ignition: the address of the base is overridden, the other key of the
\* nested map and the other key of the base are kept
C13_Witness ==
    \E c \in Calls :
        LET base == Metadata(req[c])
            result == call[c].ignitionSecret.MetaData
        IN /\ call[c].ignitionSecret.exists
           /\ Has(base, Eth0, "mtu")
           /\ Len(call[c].allAddressMetaData) > 0
           /\ At(result, Eth0, "mtu") = At(base, Eth0, "mtu")
           /\ At(result, Eth0, "ip") = Leaf(call[c].allAddressMetaData[1].ip)
           /\ At(result, Eth0, "ip") # At(base, Eth0, "ip")
           /\ result[HostKey] = base[HostKey]

\* an object of the control plane that exists is still there after the step
Kept(objects) == \A n \in DOMAIN objects : objects[n].exists => objects'[n].exists
\* the call c returns an error in this step
Fails(c) == call[c].pc # "done" /\ call'[c].pc = "done" /\ call'[c].err # ""

\* C22: no step removes an IPAddressClaim, an IPAddress, a ServerClaim or
\* an ignition secret; a claim keeps its pool and its creator, and once
\* bound its address; and the step in which a call returns an error changes
\* no object of the control plane at all.
C22_NoRollback ==
    [][/\ Kept(claims) /\ Kept(addresses) /\ Kept(serverClaims) /\ Kept(secrets)
       /\ \A n \in ClaimNames :
            claims[n].exists =>
                /\ claims'[n].PoolRef = claims[n].PoolRef
                /\ claims'[n].by = claims[n].by
                /\ Bound(claims[n]) => claims'[n] = claims[n]
       /\ \A c \in Calls : Fails(c) => cpVars' = cpVars]_vars

\* a call has failed at the apply of the ignition secret: the claim it
\* created and the ServerClaim it applied are in the control plane, the
\* secret is not
C22_Witness ==
    \E c \in Calls : \E n \in ClaimNames :
        /\ call[c].pc = "done"
        /\ call[c].err = "error applying ignition secret"
        /\ Did(call[c], "create", n, "created")
        /\ claims[n].exists
        /\ claims[n].by = c
        /\ serverClaims[req[c].Machine].exists
        /\ ~secrets[getIgnitionNameForMachine(req[c].Machine)].exists

\* in this step the call c issues the operation kind on the object n
Issues(c, kind, n) ==
    /\ Len(call'[c].log) = Len(call[c].log) + 1
    /\ call'[c].log[Len(call'[c].log)].op = kind
    /\ call'[c].log[Len(call'[c].log)].name = n
\* the answer to the operation the call issues in this step
Answer(c) == call'[c].log[Len(call'[c].log)].result

\* C24: a call creates a claim only inside the section that holds
\* Provider.mu, right after its own Get answered NotFound, while the claim
\* does not exist and no other call is inside a section; the create is never
\* answered AlreadyExists; and a Get is not answered NotFound once the claim
\* exists. So among the calls of the process at most one create per claim
\* takes effect, and none is issued after it.
C24_OneCreateAmongConcurrentCalls ==
    /\ [][\A c \in Calls : \A n \in ClaimNames :
            /\ Issues(c, "create", n) =>
                 /\ mu = c
                 /\ \A d \in Calls \ {c} : ~InSection(call[d])
                 /\ call[c].log[Len(call[c].log)] = Op("get", n, call[c].metalClient, "NotFound")
                 /\ ~claims[n].exists
                 /\ Answer(c) \in {"created", "error"}
                 /\ Answer(c) = "created" <=> claims'[n].exists
            /\ (Issues(c, "get", n) /\ Answer(c) = "NotFound") => ~claims[n].exists]_vars
    /\ [](\A n \in ClaimNames :
            Cardinality({ c \in Calls : Did(call[c], "create", n, "created") }) <= 1)

\* two calls for the same machine and entry: one has created the claim and
\* left its poll at the deadline, the other got the mutex after it, found
\* the claim unbound and issued no create
C24_Witness ==
    \E c \in Calls : \E d \in Calls \ {c} : \E n \in ClaimNames :
        /\ req[c].Machine = req[d].Machine
        /\ Did(call[c], "create", n, "created")
        /\ call[c].err = "context deadline exceeded"
        /\ Did(call[d], "get", n, "unbound")
        /\ Creates(call[d], n) = 0
        /\ claims[n].by = c

(***************************************************************************)
(* A second writer of IPAddressClaims                                      *)
(***************************************************************************)
\* another process that runs this driver against the same control plane (it
\* does not share Provider.mu) handles the request of the call c and creates
\* the claim of its entry i, as line 133 does; "other" stands for its call
CreateElsewhere(c, i) ==
    LET networkRef == req[c].IPAMConfig[i]
        name == ClaimName(req[c].Machine, networkRef.MetadataKey)
    IN /\ ~claims[name].exists
       /\ claims' = [claims EXCEPT ![name] = NewClaim(networkRef, "other")]
       /\ UNCHANGED <<provVars, mu, addresses, serverClaims, secrets, faults, req, call>>

\* one call with a request of one or two handled entries; the other call is
\* never made (its request is nil)
SharedAssignments ==
    { r \in [Calls -> Requests] :
        /\ r["c1"] \in GoodRequests
        /\ Handled(r["c1"].IPAMConfig) = 1..Len(r["c1"].IPAMConfig)
        /\ r["c2"] \in BadRequests
        /\ r["c2"].isNil }

InitShared ==
    /\ Initialized
    /\ EmptyControlPlane
    /\ req \in SharedAssignments
    /\ call = [c \in Calls |-> IdleCall]

\* the calls of this process, the allocator and the other process, which
\* handles the same requests
NextShared ==
    \/ \E c \in Calls : CallStep(c)
    \/ \E name \in ClaimNames : Bind(name)
    \/ \E c \in Calls : \E i \in 1..Len(req[c].IPAMConfig) : CreateElsewhere(c, i)

SpecShared == InitShared /\ [][NextShared]_vars

\* C16: the write that follows a Get of the claim that answered NotFound
\* does not fail because the claim exists by then.
C16_WriteAfterNotFoundIsIdempotent ==
    \A c \in Calls : \A i \in 1..Len(call[c].log) :
        ( /\ i > 1
          /\ call[c].log[i].op = "create"
          /\ call[c].log[i - 1].op = "get"
          /\ call[c].log[i - 1].result = "NotFound" )
        => /\ call[c].log[i].result \in {"created", "error"}
           /\ (i = Len(call[c].log) /\ call[c].pc = "done") =>
                 call[c].err \in {"", "error creating IP"}

\* the claim of the entry i of the call's request exists and is bound, and
\* the metadata the call composed has the entry's key with the address, the
\* prefix and the gateway of the claim's IPAddress
Allocated(c, i) ==
    LET key == req[c].IPAMConfig[i].MetadataKey
        name == ClaimName(req[c].Machine, key)
        md == call[c].ignitionSecret.MetaData
    IN /\ claims[name].exists
       /\ Bound(claims[name])
       /\ addresses[claims[name].AddressRef].exists
       /\ Has(md, key, "ip") /\ Has(md, key, "prefix") /\ Has(md, key, "gateway")
       /\ At(md, key, "ip") = Leaf(addresses[claims[name].AddressRef].Address)
       /\ At(md, key, "prefix") = Leaf(addresses[claims[name].AddressRef].Prefix)
       /\ At(md, key, "gateway") = Leaf(addresses[claims[name].AddressRef].Gateway)

\* C17: a call that has returned without error has allocated every entry of
\* its request's IPAMConfig list.
C17_NoReferenceSkipped ==
    \A c \in Calls :
        Succeeded(call[c]) => \A i \in 1..Len(req[c].IPAMConfig) : Allocated(c, i)

\* the same for the entries applyIPAddresses handles
C17_HandledReferencesAllocated ==
    \A c \in Calls :
        Succeeded(call[c]) => \A i \in Handled(req[c].IPAMConfig) : Allocated(c, i)

\* the operations applyCapiIPAddress issues for an entry
AllocOps == {"get", "create", "poll", "getaddr"}
\* the handled entries of the call's request whose claim has that name
EntriesOf(c, name) ==
    { i \in Handled(req[c].IPAMConfig) :
        ClaimName(req[c].Machine, req[c].IPAMConfig[i].MetadataKey) = name }
\* the entry the operation at position p of the call's log was issued for:
\* getaddr names the address, which has the name of its claim
EntryAt(c, p) == CHOOSE i \in EntriesOf(c, call[c].log[p].name) : TRUE
\* the address of the entry i was read before position p of the log
ResolvedBefore(c, i, p) ==
    \E q \in 1..(p - 1) :
        /\ call[c].log[q].op = "getaddr"
        /\ call[c].log[q].result = "ok"
        /\ EntryAt(c, q) = i
\* the call has returned with the allocation of some handled entry unfinished
AllocationFailed(c) ==
    /\ call[c].pc = "done"
    /\ call[c].log # <<>>
    /\ \E i \in Handled(req[c].IPAMConfig) : ~ResolvedEntry(c, i)
\* the first handled entry whose address the call has not read
FirstUnresolved(c) ==
    CHOOSE i \in Handled(req[c].IPAMConfig) :
        /\ ~ResolvedEntry(c, i)
        /\ \A j \in Handled(req[c].IPAMConfig) : j < i => ResolvedEntry(c, j)

\* C18: the operations of the allocation are issued in the order of the
\* request's list: an operation for an entry is never followed by one for an
\* earlier entry, and it comes after the address of every handled entry
\* before it has been read. A
\* call that returned with the allocation of an entry unfinished has issued
\* no operation for any later entry, has built no ignition metadata from the
\* addresses it did read, has applied nothing, and has returned an error and
\* no response.
C18_SequentialShortCircuit ==
    \A c \in Calls :
        LET cur == call[c]
            handled == Handled(req[c].IPAMConfig)
        IN /\ \A p \in 1..Len(cur.log) :
                cur.log[p].op \in AllocOps =>
                    /\ Cardinality(EntriesOf(c, cur.log[p].name)) = 1
                    /\ p > 1 => /\ cur.log[p - 1].op \in AllocOps
                                /\ EntryAt(c, p - 1) <= EntryAt(c, p)
                    /\ \A j \in handled : j < EntryAt(c, p) => ResolvedBefore(c, j, p)
           /\ AllocationFailed(c) =>
                /\ \A p \in 1..Len(cur.log) :
                     cur.log[p].op \in AllocOps /\ EntryAt(c, p) <= FirstUnresolved(c)
                /\ cur.ignitionSecret = NoSecret
                /\ cur.applied = 0
                /\ cur.err # ""
                /\ cur.resp = NoResponse

\* a call with two handled entries has failed on the first one after it had
\* created its claim: nothing was issued for the second entry
C18_Witness ==
    \E c \in Calls :
        /\ Handled(req[c].IPAMConfig) = {1, 2}
        /\ AllocationFailed(c)
        /\ FirstUnresolved(c) = 1
        /\ HasOp(call[c], {"create"})
        /\ ~claims[ClaimName(req[c].Machine, req[c].IPAMConfig[2].MetadataKey)].exists

(***************************************************************************)
(* Retries under fair scheduling                                           *)
(***************************************************************************)
\* good requests with one and with two entries, retried beside a call for
\* another machine
RetryAssignments ==
    { r \in RequestAssignments :
        /\ r["c1"] \in GoodRequests
        /\ \A i \in 1..Len(r["c1"].IPAMConfig) : IsCapiRef(r["c1"].IPAMConfig[i])
        /\ r["c2"].Machine # r["c1"].Machine }

InitFair ==
    /\ Initialized
    /\ EmptyControlPlane
    /\ req \in RetryAssignments
    /\ call = [c \in Calls |-> IdleCall]

\* the callers re-invoke CreateMachine for ever and cancel no call
NextFair ==
    \/ \E c \in Calls : CallStep(c)
    \/ \E name \in ClaimNames : Bind(name)

\* every goroutine keeps running, sync.Mutex does not starve a waiter, and
\* the allocator binds every pending claim
Fairness ==
    /\ \A c \in Calls :
         /\ WF_vars(CallStep(c))
         /\ SF_vars(LockIP(c))
         /\ SF_vars(LockSC(c))
    /\ \A name \in ClaimNames : WF_vars(Bind(name))

FairSpec == InitFair /\ [][NextFair]_vars /\ Fairness

\* no call has failed because the claim it wanted to create existed
NoAlreadyExists ==
    \A c \in Calls :
        /\ call[c].err # "error creating IP: already exists"
        /\ \A i \in 1..Len(call[c].log) : call[c].log[i].result # "AlreadyExists"

\* C5: a call that failed after some of its writes had succeeded is retried
\* with the same request; no retry fails on an object that already exists,
\* and with the allocator binding every pending claim a retry succeeds.
C5_RetryConverges ==
    /\ []NoAlreadyExists
    /\ \A c \in Calls :
         FailedPartWay(call[c]) ~> (call[c].pc = "done" /\ call[c].err = "")

\* the retry of a call that had failed part-way has succeeded on a claim
\* it did not have to create
C5_Witness ==
    \E c \in Calls :
        /\ call[c].retry
        /\ call[c].pc = "done"
        /\ call[c].err = ""
        /\ ~HasOp(call[c], {"create"})
        /\ HasOp(call[c], {"getaddr"})

(***************************************************************************)
(* The Provider under rotation of the kubeconfig                           *)
(***************************************************************************)
\* the requests of the calls that run beside the rotation: good requests
\* whose one entry is not of the cluster-api group, so that each call takes
\* the client handle in applyIPAddresses and in applyServerClaim and
\* allocates nothing
ReaderAssignments ==
    { r \in [Calls -> Requests] :
        /\ r["c1"] = GoodRequest(<<"m", "1">>, <<IPAMConfigRef(Eth0, "ipam.metal.ironcore.dev", "pool-a")>>)
        /\ r["c2"] = GoodRequest(<<"m", "1">>, <<IPAMConfigRef(Eth0, "ipam.metal.ironcore.dev", "pool-a")>>) }

\* before NewProviderAndNamespace is called
InitProvider ==
    /\ file \in [kind : FileKinds, ver : {1}]
    /\ dirOK \in BOOLEAN
    /\ events = <<>>
    /\ ppc = [p \in Procs |-> IF p = "init" THEN "start" ELSE "off"]
    /\ pcfg = [p \in Procs |-> NoCfg]
    /\ ierr = ""
    /\ Client = NilHandle
    /\ mu = Free
    /\ ctxDone = FALSE
    /\ EmptyControlPlane
    /\ req \in ReaderAssignments
    /\ call = [c \in Calls |-> IdleCall]

\* the steps of such a call: those of applyCapiIPAddress are never enabled
ReaderStep(c) ==
    \/ StartCall(c)
    \/ LockIP(c)
    \/ ReturnIP(c)
    \/ LockSC(c)
    \/ Patch(c)

NextProvider ==
    \/ ProviderStep
    \/ \E c \in Calls : ReaderStep(c)

SpecProvider == InitProvider /\ [][NextProvider]_vars

(***************************************************************************)
(* Allocation while the kubeconfig is rotated                              *)
(***************************************************************************)
\* one call with a request of one or two handled entries; the other call is
\* never made (its request is nil)
ReloadAssignments == SharedAssignments

\* NewProviderAndNamespace has returned its provider
InitReload ==
    /\ Initialized
    /\ EmptyControlPlane
    /\ req \in ReloadAssignments
    /\ call = [c \in Calls |-> IdleCall]

\* the rotation of the kubeconfig and the reload by the watch goroutine
ReloadStep ==
    \/ RotateFile
    \/ WatchEvent
    \/ \E p \in Procs : SetLock(p) \/ SetNew(p) \/ SetAssign(p)

NextReload ==
    \/ ReloadStep
    \/ \E c \in Calls : CallStep(c)
    \/ \E name \in ClaimNames : Bind(name)

SpecReload == InitReload /\ [][NextReload]_vars

\* the handle is the client built from one version of the kubeconfig that
\* has existed so far
BuiltFromOneConfig(h) == \E v \in 1..file.ver : h = Handle(v)
\* the operations applyServerClaim issues
ApplyOps == {"ServerClaim", "Secret"}
\* two operations of the call's log belong to the same section
SameSection(o1, o2) ==
    \/ o1.op \in AllocOps /\ o2.op \in AllocOps
    \/ o1.op \in ApplyOps /\ o2.op \in ApplyOps
\* the operations of the section the call is in
SectionOps(cur) == IF cur.pc = "patch" THEN ApplyOps ELSE AllocOps

\* C19: while a call is inside applyIPAddresses or applyServerClaim past the
\* Lock, it holds Provider.mu, Provider.Client is the handle it read at the
\* Lock, the watch goroutine is not inside the locked part of setMetalClient
\* and a reload that waits for the mutex cannot go on; no step taken while a
\* call is inside a section changes Provider.Client; and all operations of
\* one section of a call were issued with one handle, the one read at the
\* Lock of that section.
C19_HandleHeldForWholeSection ==
    /\ [](\A c \in Calls :
            LET cur == call[c] IN
            /\ InSection(cur) =>
                 /\ mu = c
                 /\ Whole(cur.metalClient)
                 /\ Client = cur.metalClient
                 /\ ppc["watch"] \notin {"new", "assign"}
                 /\ ppc["watch"] = "lock" => ~ENABLED SetLock("watch")
                 /\ \A p \in 1..Len(cur.log) :
                      cur.log[p].op \in SectionOps(cur) => cur.log[p].client = cur.metalClient
            /\ \A p \in 1..Len(cur.log) : \A q \in 1..Len(cur.log) :
                 SameSection(cur.log[p], cur.log[q]) => cur.log[p].client = cur.log[q].client)
    /\ [][(\E c \in Calls : InSection(call[c])) => Client' = Client]_vars

\* the kubeconfig was rotated while a call polls: the reload waits for the
\* mutex with the new configuration, the call has issued its operations
\* with the first client, which is still installed
C19_Witness ==
    \E c \in Calls :
        /\ call[c].pc = "poll"
        /\ call[c].polls > 1
        /\ HasOp(call[c], {"create"})
        /\ call[c].metalClient = Handle(1)
        /\ ppc["watch"] = "lock"
        /\ pcfg["watch"].ver = 2
        /\ Client = Handle(1)

\* C23 as stated: all operations of a call were issued with one handle.
C23_OneHandlePerCall ==
    \A c \in Calls : \A p \in 1..Len(call[c].log) : \A q \in 1..Len(call[c].log) :
        call[c].log[p].client = call[c].log[q].client

\* C23: the operations of the allocation were issued with one handle and
\* the applies with one handle, each the whole client of one kubeconfig;
\* the handle of the applies is the one installed when applyServerClaim took
\* the mutex, which after a rotation is a newer one than the allocation's.
C23_OneHandlePerAcquisition ==
    \A c \in Calls :
        LET cur == call[c] IN
        /\ \A p \in 1..Len(cur.log) :
             /\ BuiltFromOneConfig(cur.log[p].client)
             /\ \A q \in p..Len(cur.log) :
                  IF SameSection(cur.log[p], cur.log[q])
                  THEN cur.log[q].client = cur.log[p].client
                  ELSE cur.log[q].client[1] >= cur.log[p].client[1]
        /\ cur.pc = "patch" =>
             /\ cur.metalClient = Client
             /\ \A p \in 1..Len(cur.log) :
                  cur.log[p].op \in ApplyOps => cur.log[p].client = Client

\* a call has succeeded whose allocation ran with the first client and whose
\* applies ran with the client of the rotated kubeconfig
C23_Witness ==
    \E c \in Calls :
        /\ Succeeded(call[c])
        /\ \E p \in 1..Len(call[c].log) :
             call[c].log[p].op = "create" /\ call[c].log[p].client = Handle(1)
        /\ \A p \in 1..Len(call[c].log) :
             call[c].log[p].op \in ApplyOps => call[c].log[p].client = Handle(2)

(***************************************************************************)
(* Cancellation of the watch goroutine's context                           *)
(***************************************************************************)
\* one call with one handled entry; the other call is never made
CancelAssignments ==
    { r \in ReloadAssignments : Len(r["c1"].IPAMConfig) = 1 }

InitCancel ==
    /\ Initialized
    /\ EmptyControlPlane
    /\ req \in CancelAssignments
    /\ call = [c \in Calls |-> IdleCall]

\* rotation and reload, the cancellation of the context given to
\* NewProviderAndNamespace, the exits of the watch goroutine, and the calls
NextCancel ==
    \/ ReloadStep
    \/ CancelCtx
    \/ WatchCtxDone
    \/ WatchError
    \/ \E c \in Calls : CallStep(c)
    \/ \E name \in ClaimNames : Bind(name)

\* the goroutines keep running, sync.Mutex hands the mutex to a waiter
\* that has waited long enough, and select takes a case that is ready again
\* and again
FairnessCancel ==
    /\ WF_vars(WatchEvent)
    /\ SF_vars(SetLock("watch"))
    /\ WF_vars(SetNew("watch"))
    /\ WF_vars(SetAssign("watch"))
    /\ SF_vars(WatchCtxDone)
    /\ \A c \in Calls : WF_vars(CallStep(c))

SpecCancel == InitCancel /\ [][NextCancel]_vars /\ FairnessCancel

\* the watch goroutine has returned, or klog.Fatalf has ended the process
WatchEnded == ppc["watch"] \in {"exited", "fatal"}

\* C21: once the context is cancelled the watch goroutine ends, wherever it
\* was at that moment; it returns only from its select and only when the
\* context is cancelled; and once it has returned it takes no further step
\* and Provider.Client is not changed again.
C21_WatchEndsOnCancel ==
    /\ ctxDone ~> WatchEnded
    /\ [][(ppc["watch"] # "exited" /\ ppc'["watch"] = "exited") =>
             (ppc["watch"] = "select" /\ ctxDone)]_vars
    /\ [][ppc["watch"] = "exited" => (ppc'["watch"] = "exited" /\ Client' = Client)]_vars

\* the watch goroutine has returned after it had installed the client of the
\* rotated kubeconfig, while a call holds the mutex in its poll loop
C21_Witness ==
    \E c \in Calls :
        /\ ctxDone
        /\ ppc["watch"] = "exited"
        /\ Client = Handle(2)
        /\ call[c].pc = "poll"
        /\ mu = c

\* the context is cancelled while the watch goroutine, in the middle of a
\* reload, waits for the mutex a polling call holds
CancelledWhileWaiting ==
    \E c \in Calls :
        /\ ctxDone
        /\ ppc["watch"] = "lock"
        /\ call[c].pc = "poll"
        /\ mu = c

(***************************************************************************)
(* Properties of the Provider                                              *)
(***************************************************************************)
\* C6: whatever way CreateMachine calls, the reload of the watch goroutine
\* and rotations of the kubeconfig interleave, every handle a call has taken
\* from the Provider, and every handle it has issued an operation with, is
\* not nil and not torn: it is the client built from one kubeconfig version.
C6_NoNilOrTornHandle ==
    \A c \in Calls :
        /\ InSection(call[c]) => BuiltFromOneConfig(call[c].metalClient)
        /\ \A i \in 1..Len(call[c].log) : BuiltFromOneConfig(call[c].log[i].client)

\* after a rotation one call works with the new client inside a section
\* while the other call has issued operations with the old one
C6_Witness ==
    \E c \in Calls : \E d \in Calls \ {c} :
        /\ InSection(call[c])
        /\ call[c].metalClient = Handle(2)
        /\ \E i \in 1..Len(call[d].log) : call[d].log[i].client = Handle(1)

\* the step in which the watch goroutine gives up a reload: the kubeconfig
\* event it takes meets a file getClientConfig or ClientConfig() rejects, or
\* client.New fails inside setMetalClient
WatchReloadFails ==
    \/ /\ ppc["watch"] = "select"
       /\ events # <<>>
       /\ events' = Tail(events)
       /\ Head(events) = "kubeconfig"
       /\ getClientConfig.err # "" \/ restConfigErr(getClientConfig.cfg) # ""
    \/ /\ ppc["watch"] = "new"
       /\ ppc'["watch"] \notin {"new", "assign"}

\* C7: a reload of the watch goroutine that fails (file unreadable or
\* malformed, no rest config, client.New error) leaves Provider.Client as it
\* was, and the goroutine is back in its select, still watching.
C7_FailedReloadKeepsHandle ==
    [][WatchReloadFails => (Client' = Client /\ ppc'["watch"] = "select" /\ mu' # "watch")]_vars

\* the kubeconfig was replaced by one that cannot be used, the watch
\* goroutine has handled the event, and the first client is still installed
C7_Witness ==
    /\ ppc["init"] = "ok"
    /\ file.ver = 2
    /\ file.kind \in {"absent", "malformed", "norest"}
    /\ events = <<>>
    /\ ppc["watch"] = "select"
    /\ Client = Handle(1)

\* the errors of reloadMetalClientOnConfigChange
WatchRegistrationErrors == {"unable to create kubeconfig watcher", "unable to add kubeconfig"}

\* C8: NewProviderAndNamespace fails exactly when it has an error to return.
\* A directory that cannot be watched fails it with the watch-registration
\* error whatever the file holds; with the watch registered, an absent file
\* fails it with the read error, a malformed one with the load error, and a
\* configuration without rest config with the rest-config error; any other
\* file lets it go on to build the client.
C8_InitializeFailsAtFirstStep ==
    /\ [](ppc["init"] = "failed" <=> ierr # "")
    /\ [](~dirOK => /\ ppc["init"] \in {"start", "failed"}
                    /\ ierr \in WatchRegistrationErrors \cup {""})
    /\ [][(ppc["init"] = "getcfg" /\ ppc'["init"] # "getcfg") =>
            /\ dirOK
            /\ file.kind = "absent" =>
                 ppc'["init"] = "failed" /\ ierr' = "failed to read metal kubeconfig"
            /\ file.kind = "malformed" =>
                 ppc'["init"] = "failed" /\ ierr' = "unable to read metal cluster kubeconfig"
            /\ file.kind = "norest" =>
                 ppc'["init"] = "failed" /\ ierr' = "unable to get metal cluster rest config"
            /\ file.kind \in {"nons", "valid"} =>
                 ppc'["init"] = "lock" /\ ierr' = ""]_vars

\* the directory cannot be watched and the file is absent as well: the
\* watch-registration error is the one returned
C8_Witness ==
    /\ ~dirOK
    /\ file.kind = "absent"
    /\ ppc["init"] = "failed"
    /\ ierr = "unable to add kubeconfig"

\* C20: unless NewProviderAndNamespace fails, Provider.Client is never
\* replaced by a client built from an older kubeconfig than the one whose
\* client is installed.
C20_NoStaleInstall ==
    [][(Whole(Client') /\ ppc'["init"] # "failed") => Client'[2] >= Client[2]]_vars

\* C25: once NewProviderAndNamespace has returned an error, the watch
\* goroutine of that Provider is not running, and Provider.Client is not
\* written again.
C25_FailedInitLeavesNoWatch ==
    /\ [](ppc["init"] = "failed" => ~Watching)
    /\ [][ppc["init"] = "failed" => Client' = Client]_vars

====
